---- MODULE Spec2Model ----
(***************************************************************************)
(* tap_xero/pull.py: the extraction strategies (Puller and its subclasses) *)
(* over the pipeline state (bookmarks), the backoff wrapper around         *)
(* _make_request, and the remote endpoint they fetch from.                 *)
(*                                                                         *)
(* One run = one iteration of a Puller's yield_pages() generator by the    *)
(* driver.  A step is one resumption of the generator up to the next       *)
(* remote fetch attempt, yield, return or raise.                           *)
(***************************************************************************)
EXTENDS Integers, Sequences, FiniteSets, TLC

VARIABLES
    selected,   \* the strategies whose streams the driver runs in this process
    state,      \* the pipeline state mapping handed to every Puller
    defaults,   \* the default `options` dict object of PaginatedPull._paginate
    remote,     \* the remote endpoint: [stable, db]
    pc,         \* position of the current run's generator
    self,       \* the Puller instance of the current run
    loc,        \* the generator's local variables
    options,    \* the options dict built by yield_pages for this run
    out,        \* the batch handed to the consumer at the current yield
    req,        \* the options the last fetch of the run was issued with
    nruns,      \* number of runs started
    run,        \* the current run: class, start cursor, first page, end, ids yielded,
                \* number of _make_request calls
    prev,       \* the same of the run before it
    state0,     \* the pipeline state as it stood when the current run began
    script,     \* the answers the remote gives to the attempts of one _make_request call
    call        \* what the last _make_request call did

vars == <<selected, state, defaults, remote, pc, self, loc, options, out, req, nruns,
          run, prev, state0, script, call>>

----------------------------------------------------------------------------
(* Bounds of the model *)

MaxTime == 2        \* instants are 0..MaxTime
MaxBatch == 2       \* records in one fetched batch (the remote's page size)
MaxRuns == 2        \* runs in one behaviour

Times == 0..MaxTime
StartDate == MaxTime - 1    \* the instant of config["start_date"]
MaxJournal == MaxTime       \* journal numbers are 0..MaxJournal
MaxRecs == 2 * MaxBatch     \* records in a stable remote data set

----------------------------------------------------------------------------
(* Python values *)

None == [type |-> "None", fmt |-> "-", v |-> 0]
IntVal(n) == [type |-> "int", fmt |-> "-", v |-> n]
Datetime(t) == [type |-> "datetime", fmt |-> "-", v |-> t]
\* A timestamp string of instant t; fmt is the layout of its text:
\*   "cfg"    2020-01-01T00:00:00Z           (the configured start date)
\*   "iso"    2020-01-01T00:00:00+00:00      (datetime.isoformat)
\*   "singer" 2020-01-01T00:00:00.000000Z    (singer.utils.strftime)
Str(fmt, t) == [type |-> "str", fmt |-> fmt, v |-> t]
EmptyStr == [type |-> "str", fmt |-> "empty", v |-> 0]
Text(s) == [type |-> "text", fmt |-> s, v |-> 0]

\* Python truthiness of a value
Truthy(x) ==
    /\ x.type # "None"
    /\ ~(x.type = "int" /\ x.v = 0)
    /\ ~(x.type = "str" /\ x.fmt = "empty")

\* the default whatever x is
OrDefault(x, y) == y

\* x or y
Or(x, y) == IF Truthy(x) THEN x ELSE y

\* dicts are functions over their keys
EmptyDict == [k \in {} |-> None]
Get(d, k) == IF k \in DOMAIN d THEN d[k] ELSE None
Put(d, k, val) == [x \in (DOMAIN d) \cup {k} |-> IF x = k THEN val ELSE d[x]]

isoformat(dt) == Str("iso", dt.v)
parse(s) == Datetime(s.v)
strftime(dt) == Str("singer", dt.v)

\* position of the first character after the seconds in each layout
FmtRank(f) == CASE f = "iso" -> 1 [] f = "singer" -> 2 [] f = "cfg" -> 3 [] OTHER -> 0

\* a >= b on two timestamp strings (character by character)
StrGE(a, b) ==
    IF a.fmt = "empty" \/ b.fmt = "empty" THEN b.fmt = "empty"
    ELSE IF a.v # b.v THEN a.v > b.v
    ELSE FmtRank(a.fmt) >= FmtRank(b.fmt)

----------------------------------------------------------------------------
(* Puller classes and their class attributes *)

Classes == {"IncrementingPull", "BankTransfersPull", "PaginatedPull",
            "JournalPull", "LinkedTransactionsPull", "EverythingPull"}

\* the stream each strategy is run for
StreamOf(c) ==
    CASE c = "IncrementingPull" -> "accounts"
      [] c = "BankTransfersPull" -> "bank_transfers"
      [] c = "PaginatedPull" -> "invoices"
      [] c = "JournalPull" -> "journals"
      [] c = "LinkedTransactionsPull" -> "linked_transactions"
      [] OTHER -> "currencies"

Streams == {StreamOf(c) : c \in Classes}

bookmark_property(c) ==
    IF c = "BankTransfersPull" THEN "CreatedDateUTC" ELSE "UpdatedDateUTC"

\* the property alone
_order_by_bare(c) == Text(bookmark_property(c))

\* bookmark_property + " ASC"
_order_by(c) ==
    Text(IF bookmark_property(c) = "CreatedDateUTC" THEN "CreatedDateUTC ASC"
                                                    ELSE "UpdatedDateUTC ASC")

config == [start_date |-> Str("cfg", StartDate)]

\* Puller.__init__
Puller(c) == [cls |-> c, tap_stream_id |-> StreamOf(c)]

NoPuller == [cls |-> "-", tap_stream_id |-> "-"]

----------------------------------------------------------------------------
(* The bookmark store *)

\* a new bookmarks mapping with this stream's entry alone
_bookmark_state_fresh(st, id) ==
    [bookmarks |-> Put(EmptyDict, id,
                       IF "bookmarks" \in DOMAIN st /\ id \in DOMAIN st["bookmarks"]
                       THEN st["bookmarks"][id] ELSE EmptyDict)]

\* Puller._bookmark: the property creates the missing levels as it is read
_bookmark_state(st, id) ==
    LET s1 == IF "bookmarks" \in DOMAIN st THEN st ELSE Put(st, "bookmarks", EmptyDict)
        b == s1["bookmarks"]
    IN  IF id \in DOMAIN b THEN s1 ELSE Put(s1, "bookmarks", Put(b, id, EmptyDict))

_bookmark(st, id) == _bookmark_state(st, id)["bookmarks"][id]

\* self._bookmark[field] = val
SetBookmark(st, id, field, val) ==
    LET s1 == _bookmark_state(st, id)
    IN  Put(s1, "bookmarks", Put(s1["bookmarks"], id, Put(s1["bookmarks"][id], field, val)))

_set_last_updated(st, id, updated_at) ==
    SetBookmark(st, id, "updated_at",
                IF updated_at.type = "datetime" THEN isoformat(updated_at) ELSE updated_at)

\* the start date written over whatever bookmark there is
_update_start_state_always(st, id) ==
    _set_last_updated(_bookmark_state(st, id), id, config.start_date)

\* seeding from the epoch, not from the configured start date
_update_start_state_epoch(st, id) ==
    IF ~Truthy(Get(_bookmark(st, id), "updated_at"))
    THEN _set_last_updated(_bookmark_state(st, id), id, Str("cfg", 0))
    ELSE _bookmark_state(st, id)

\* Puller._update_start_state: the state it leaves, and the value it returns
_update_start_state(st, id) ==
    IF ~Truthy(Get(_bookmark(st, id), "updated_at"))
    THEN _set_last_updated(_bookmark_state(st, id), id, config.start_date)
    ELSE _bookmark_state(st, id)

\* the configured start date whatever the bookmark
StartCursorConfigured(st, id) == parse(config.start_date)

StartCursor(st, id) == parse(_bookmark(_update_start_state(st, id), id)["updated_at"])

\* what the model reads of a stream's bookmark without touching the state
Peek(st, id, field) ==
    IF "bookmarks" \in DOMAIN st /\ id \in DOMAIN st["bookmarks"]
    THEN Get(st["bookmarks"][id], field)
    ELSE None

----------------------------------------------------------------------------
(* The remote endpoint (XeroClient.filter) *)

Rec(i, u, c, j) ==
    [id |-> i, UpdatedDateUTC |-> Str("singer", u),
     CreatedDateUTC |-> Str("singer", c), JournalNumber |-> IntVal(j)]

SeqsUpTo(S, n) == UNION {[1..k -> S] : k \in 0..n}

Ascending(b, prop) == \A i \in 1..(Len(b) - 1) : b[i][prop].v <= b[i + 1][prop].v

\* the records an endpoint can hold
RecsOf(c) ==
    CASE c = "BankTransfersPull" -> {Rec(0, MaxTime, t, 0) : t \in Times}
      [] c = "JournalPull" -> {Rec(0, 0, 0, j) : j \in 0..MaxJournal}
      [] OTHER -> {Rec(0, t, 0, 0) : t \in Times}

\* a stable data set: MaxRecs records, ids 1..MaxRecs, ascending by UpdatedDateUTC
DataSets ==
    {d \in [1..MaxRecs -> {Rec(i, t, 0, 0) : i \in 1..MaxRecs, t \in Times}] :
        /\ \A i \in 1..MaxRecs : d[i].id = i
        /\ Ascending(d, "UpdatedDateUTC")}

Min(a, b) == IF a <= b THEN a ELSE b

\* page p (of MaxBatch records) of the records of d not older than since
PageOf(d, since, p) ==
    LET hits == SelectSeq(d, LAMBDA r : r.UpdatedDateUTC.v >= since.v)
    IN  SubSeq(hits, (p - 1) * MaxBatch + 1, Min(p * MaxBatch, Len(hits)))

\* The batches a successful fetch can return.  An endpoint that is sent
\* `since` returns records not older than it, ascending by the bookmark
\* property; of a paginated one, a page holds nothing older than the page
\* served before it in the same sweep (floor: the last instant served).
\* The other endpoints return any batch.
Remote(c, opts, floor) ==
    IF c \in {"IncrementingPull", "BankTransfersPull", "PaginatedPull"}
    THEN IF c = "PaginatedPull" /\ remote.stable
         THEN {PageOf(remote.db, opts["since"], opts["page"].v)}
         ELSE {b \in SeqsUpTo(RecsOf(c), MaxBatch) :
                  /\ Ascending(b, bookmark_property(c))
                  /\ \A i \in 1..Len(b) :
                        /\ b[i][bookmark_property(c)].v >= opts["since"].v
                        /\ b[i][bookmark_property(c)].v >= floor}
    ELSE SeqsUpTo(RecsOf(c), MaxBatch)

OtherStatuses == {400, 500}

----------------------------------------------------------------------------
(* Puller._make_request under backoff.on_exception *)

\* one attempt too many before giving up
max_tries_11 == 10 + 1

\* backoff.on_exception(..., max_tries=10, ...)
max_tries == 10

\* what one attempt of _request_with_timer meets: an HTTP status and, with 200,
\* the batch
Answer(status, b) == [status |-> status, recs |-> b]

\* how a call ends: it returns a list ("list") or None ("None"), or an exception
\* leaves it ("RateLimitException", "HTTPError")
Result(kind, b, n, r) == [kind |-> kind, recs |-> b, tries |-> n, refreshes |-> r]

\* The call against a remote that answers the i-th attempt with answers[i]:
\* tries attempts made so far, refreshes calls of credentials.refresh so far.
\* every error handled as a 401 is
AttemptRefreshing(answers, tries, refreshes) ==
    LET a == answers[tries + 1]
    IN  IF a.status = 200 THEN Result("list", a.recs, tries + 1, refreshes)
        ELSE Result("None", << >>, tries + 1, refreshes + 1)

RECURSIVE Attempt(_, _, _)
Attempt(answers, tries, refreshes) ==
    LET a == answers[tries + 1]
    IN  IF a.status = 200 THEN Result("list", a.recs, tries + 1, refreshes)
        ELSE IF a.status = 401 THEN Result("None", << >>, tries + 1, refreshes + 1)
        ELSE IF a.status = 503
             THEN IF tries + 1 >= max_tries
                  THEN Result("RateLimitException", << >>, tries + 1, refreshes)
                  ELSE Attempt(answers, tries + 1, refreshes)
        ELSE Result("HTTPError", << >>, tries + 1, refreshes)

_make_request(answers) == Attempt(answers, 0, 0)

\* what the remote can answer to the attempts of one call: k times 503 (k in
\* ks), then a batch or another error; or 503 to every attempt the call makes
Answers(batches, ks) ==
    {[i \in 1..(k + 1) |-> IF i <= k THEN Answer(503, << >>) ELSE f] :
        k \in ks,
        f \in {Answer(200, b) : b \in batches}
              \cup {Answer(c, << >>) : c \in {401} \cup OtherStatuses}}
    \cup {[i \in 1..max_tries |-> Answer(503, << >>)]}

\* a fetch of a run is answered at once, or with 503 throughout (what runs of
\* 503 before an answer do to a call is SpecRequest's matter)
Retries == {0}

\* every exception taken for a falsy response
RaisedNever(r) == r.kind \in {}

Raised(r) == r.kind \in {"RateLimitException", "HTTPError"}

\* truthiness of the returned value: None and [] are falsy
RespTruthy(r) == r.kind = "list" /\ Len(r.recs) > 0

\* the yielded object
Batch(b) == [kind |-> "list", recs |-> b]
NoBatch == [kind |-> "None", recs |-> << >>]

----------------------------------------------------------------------------
(* PaginatedPull._paginate and the strategies *)

\* the page limit of _paginate (1e6 in the code, scaled down)
PageLimit == 2

\* the valve one batch early
ValveEarly(num_pages_yielded) == num_pages_yielded >= PageLimit

\* if num_pages_yielded > 1e6: raise
Valve(num_pages_yielded) == num_pages_yielded > PageLimit

\* page[0]
FirstRecord(page) == page[1]

\* page[-1]
LastRecord(page) == page[Len(page)]

\* the default of _paginate for every class
get_next_page_num_default(c, curr_page_num, page) == IntVal(curr_page_num.v + 1)

\* get_next_page_num: the default of _paginate, and JournalPull's next_page_fn
get_next_page_num(c, curr_page_num, page) ==
    IF c = "JournalPull" THEN LastRecord(page)["JournalNumber"]
    ELSE IntVal(curr_page_num.v + 1)

pagination_key(c) == IF c = "JournalPull" THEN "offset" ELSE "page"

\* JournalPull and LinkedTransactionsPull call _paginate without options, so
\* they all write to the one default dict of _paginate
UsesDefaultOptions(c) == c \in {"JournalPull", "LinkedTransactionsPull"}

\* the filter with > for >=
FilteredStrictly(page, start) ==
    SelectSeq(page, LAMBDA x : ~StrGE(strftime(start), x["UpdatedDateUTC"]))

\* [x for x in page if x["UpdatedDateUTC"] >= strftime(start)]
Filtered(page, start) ==
    SelectSeq(page, LAMBDA x : StrGE(x["UpdatedDateUTC"], strftime(start)))

\* the bookmark written only after the batch has been handed over
AfterPageDeferred(c, st, id, page, next_num) == st

\* the bookmark after a non-empty page, per yield_pages loop body
AfterPage(c, st, id, page, next_num) ==
    IF c = "JournalPull"
    THEN SetBookmark(st, id, "journal_number", next_num)
    ELSE _set_last_updated(SetBookmark(st, id, "page", next_num), id,
                           LastRecord(page)[bookmark_property(c)])

\* the batch yielded for a page
Yielded(c, page, start) ==
    IF c = "LinkedTransactionsPull" THEN Filtered(page, start) ELSE page

\* the page bookmark left as the last page set it
AfterSweepNoReset(c, st, id) == st

\* the bookmark when the loop over _paginate ends
AfterSweep(c, st, id) ==
    IF c = "JournalPull" THEN st ELSE SetBookmark(st, id, "page", None)

NoLoc == [start |-> None, first_num |-> None, curr_page_num |-> None,
          next_page_num |-> None, num_pages_yielded |-> 0, page |-> << >>]

NoRun == [cls |-> "-", start |-> None, first |-> None, end |-> "-", ids |-> {},
          fetches |-> 0]

Ended == {"idle", "done", "raised", "stopped"}

Ids(page) == {page[i].id : i \in 1..Len(page)}

----------------------------------------------------------------------------
(* Initial states *)

\* bookmark entries earlier processes can have left for a stream
InitEntries(c) ==
    CASE c \in {"IncrementingPull", "BankTransfersPull"} ->
            {[updated_at |-> u] : u \in {None, EmptyStr, Str("singer", StartDate)}}
            \cup {EmptyDict}
      [] c \in {"PaginatedPull", "LinkedTransactionsPull"} ->
            {[updated_at |-> Str("singer", StartDate), page |-> p] :
                 p \in {None, IntVal(2)}}
      [] c = "JournalPull" -> {[journal_number |-> IntVal(1)]}
      [] OTHER -> {EmptyDict}

\* the pipeline states a process can start with when it runs these classes
InitStatesOf(classes) ==
    {EmptyDict, [bookmarks |-> EmptyDict]}
    \cup UNION {{[bookmarks |-> Put(EmptyDict, StreamOf(c), e)] : e \in InitEntries(c)} :
                   c \in classes}

InitStates == InitStatesOf(Classes \ {"EverythingPull"})

NoCall == Result("-", << >>, 0, 0)

InitRest ==
    /\ defaults = EmptyDict
    /\ pc = "idle"
    /\ self = NoPuller
    /\ loc = NoLoc
    /\ options = EmptyDict
    /\ out = NoBatch
    /\ req = EmptyDict
    /\ nruns = 0
    /\ run = NoRun
    /\ prev = NoRun
    /\ state0 = state
    /\ call = NoCall

Init ==
    /\ selected = Classes
    /\ remote = [stable |-> FALSE, db |-> << >>]
    /\ state \in InitStates
    /\ script = << >>
    /\ InitRest

----------------------------------------------------------------------------
(* The driver starts a run: the first next() on yield_pages() runs the      *)
(* generator up to its first yield, its end, or the exception leaving it.   *)

\* the part every run shares
Begin(c) ==
    /\ c \in selected
    /\ pc \in Ended
    /\ nruns < MaxRuns
    /\ nruns' = nruns + 1
    /\ self' = Puller(c)
    /\ state0' = state
    /\ prev' = IF remote.stable THEN run ELSE NoRun
    /\ UNCHANGED <<selected, remote, script>>

NewRun(c, start, first_num) ==
    [cls |-> c, start |-> start, first |-> first_num, end |-> "running", ids |-> {},
     fetches |-> 0]

\* IncrementingPull.yield_pages (BankTransfersPull inherits it)
IncrementingPull_start(c) ==
    LET id == StreamOf(c)
        st1 == _update_start_state(state, id)
        start == StartCursor(state, id)
        opts == [since |-> start]
        r0 == [NewRun(c, start, None) EXCEPT !.fetches = 1]
    IN  /\ Begin(c)
        /\ options' = opts
        /\ req' = opts
        /\ \E answers \in Answers(Remote(c, opts, 0), Retries) :
              LET r == _make_request(answers)
                  page == r.recs
              IN  /\ loc' = [NoLoc EXCEPT !.start = start, !.page = page]
                  /\ call' = r
                  /\ IF Raised(r)
                     THEN /\ state' = st1
                          /\ out' = NoBatch
                          /\ pc' = "raised"
                          /\ run' = [r0 EXCEPT !.end = "raised"]
                     ELSE IF RespTruthy(r)
                     THEN /\ state' = _set_last_updated(st1, id,
                                          LastRecord(page)[bookmark_property(c)])
                          /\ out' = Batch(page)
                          /\ pc' = "yielded"
                          /\ run' = [r0 EXCEPT !.ids = Ids(page)]
                     ELSE /\ state' = st1
                          /\ out' = NoBatch
                          /\ pc' = "done"
                          /\ run' = [r0 EXCEPT !.end = IF r.kind = "list"
                                                       THEN "exhausted" ELSE "none"]
        /\ UNCHANGED defaults

\* EverythingPull.yield_pages: yields whatever _make_request() returned
EverythingPull_start ==
    LET c == "EverythingPull"
        r0 == [NewRun(c, None, None) EXCEPT !.fetches = 1]
    IN  /\ Begin(c)
        /\ options' = EmptyDict
        /\ req' = EmptyDict
        /\ loc' = NoLoc
        /\ \E answers \in Answers(Remote(c, EmptyDict, 0), Retries) :
              LET r == _make_request(answers)
              IN  /\ call' = r
                  /\ IF Raised(r)
                     THEN /\ out' = NoBatch
                          /\ pc' = "raised"
                          /\ run' = [r0 EXCEPT !.end = "raised"]
                     ELSE /\ out' = [kind |-> r.kind, recs |-> r.recs]
                          /\ pc' = "yielded"
                          /\ run' = [r0 EXCEPT !.ids = Ids(r.recs)]
        /\ UNCHANGED <<state, defaults>>

\* One turn of _paginate's loop and of the yield_pages loop around it, from
\* the top of `while True` to the next yield, the end of the generator, or
\* the exception leaving it.  st: the pipeline state; opts: the options dict
\* as it stands; curr_page_num, num_pages_yielded: _paginate's locals.
Turn(c, st, opts, start, first_num, curr_page_num, num_pages_yielded, r0) ==
    LET id == StreamOf(c)
        opts1 == Put(opts, pagination_key(c), curr_page_num)
        at == [start |-> start, first_num |-> first_num,
               curr_page_num |-> curr_page_num, next_page_num |-> None,
               num_pages_yielded |-> num_pages_yielded, page |-> << >>]
        floor == IF pc = "yielded" /\ self.cls = c /\ c = "PaginatedPull"
                 THEN LastRecord(loc.page)[bookmark_property(c)].v ELSE 0
        r1 == [r0 EXCEPT !.fetches = @ + 1]
    IN  IF Valve(num_pages_yielded)
        THEN /\ state' = st
             /\ loc' = at
             /\ out' = NoBatch
             /\ pc' = "raised"
             /\ run' = [r0 EXCEPT !.end = "raised"]
             /\ UNCHANGED <<req, options, defaults, call>>
        ELSE /\ IF UsesDefaultOptions(c)
                THEN defaults' = opts1 /\ options' = EmptyDict
                ELSE options' = opts1 /\ UNCHANGED defaults
             /\ req' = opts1
             /\ \E answers \in Answers(Remote(c, opts1, floor), Retries) :
                   LET r == _make_request(answers)
                       page == r.recs
                       next_page_num == get_next_page_num(c, curr_page_num, page)
                   IN  /\ call' = r
                       /\ IF Raised(r)
                          THEN /\ state' = st
                               /\ loc' = at
                               /\ out' = NoBatch
                               /\ pc' = "raised"
                               /\ run' = [r1 EXCEPT !.end = "raised"]
                          ELSE IF RespTruthy(r)
                          THEN /\ state' = AfterPage(c, st, id, page, next_page_num)
                               /\ loc' = [at EXCEPT !.next_page_num = next_page_num,
                                                    !.page = page]
                               /\ out' = Batch(Yielded(c, page, start))
                               /\ pc' = "yielded"
                               /\ run' = [r1 EXCEPT !.ids = @ \cup Ids(Yielded(c, page, start))]
                          ELSE /\ state' = AfterSweep(c, st, id)
                               /\ loc' = at
                               /\ out' = NoBatch
                               /\ pc' = "done"
                               /\ run' = [r1 EXCEPT !.end = IF r.kind = "list"
                                                            THEN "exhausted" ELSE "none"]

\* PaginatedPull.yield_pages up to its first yield
PaginatedPull_start ==
    LET c == "PaginatedPull"
        id == StreamOf(c)
        st1 == _update_start_state(state, id)
        start == StartCursor(state, id)
        first_num == Or(Get(_bookmark(st1, id), "page"), IntVal(1))
    IN  /\ Begin(c)
        /\ Turn(c, st1, [since |-> start, order |-> _order_by(c)], start, first_num,
                first_num, 0, NewRun(c, start, first_num))

\* JournalPull.yield_pages up to its first yield
JournalPull_start ==
    LET c == "JournalPull"
        id == StreamOf(c)
        first_num == Or(Get(_bookmark(state, id), "journal_number"), IntVal(0))
    IN  /\ Begin(c)
        /\ Turn(c, _bookmark_state(state, id), defaults, None, first_num,
                first_num, 0, NewRun(c, None, first_num))

\* LinkedTransactionsPull.yield_pages up to its first yield
LinkedTransactionsPull_start ==
    LET c == "LinkedTransactionsPull"
        id == StreamOf(c)
        st1 == _update_start_state(state, id)
        start == StartCursor(state, id)
        first_num == Or(Get(_bookmark(st1, id), "page"), IntVal(1))
    IN  /\ Begin(c)
        /\ Turn(c, st1, defaults, start, first_num, first_num, 0,
                NewRun(c, start, first_num))

----------------------------------------------------------------------------
(* The consumer, holding a yielded batch, asks for the next one or stops.   *)

Resume(classes) ==
    /\ pc = "yielded"
    /\ self.cls \in classes
    /\ UNCHANGED <<selected, remote, self, nruns, state0, prev, script>>

\* IncrementingPull and EverythingPull end after their one yield
Generator_end ==
    /\ Resume({"IncrementingPull", "BankTransfersPull", "EverythingPull"})
    /\ pc' = "done"
    /\ out' = NoBatch
    /\ run' = [run EXCEPT !.end = "returned"]
    /\ UNCHANGED <<state, defaults, loc, options, req, call>>

\* the next turn of a paginated run: curr_page_num = next_page_num,
\* num_pages_yielded += 1, and the loop again
Paginate_next(c) ==
    /\ Resume({c})
    /\ Turn(c, state, IF UsesDefaultOptions(c) THEN defaults ELSE options,
            loc.start, loc.first_num, loc.next_page_num,
            loc.num_pages_yielded + 1, run)

PaginatedPull_next == Paginate_next("PaginatedPull")
JournalPull_next == Paginate_next("JournalPull")
LinkedTransactionsPull_next == Paginate_next("LinkedTransactionsPull")

\* the consumer stops iterating the generator
Stop ==
    /\ Resume(Classes)
    /\ pc' = "stopped"
    /\ run' = [run EXCEPT !.end = "stopped"]
    /\ UNCHANGED <<state, defaults, loc, options, req, out, call>>

----------------------------------------------------------------------------

Next ==
    \/ \E c \in {"IncrementingPull", "BankTransfersPull"} : IncrementingPull_start(c)
    \/ EverythingPull_start
    \/ PaginatedPull_start
    \/ JournalPull_start
    \/ LinkedTransactionsPull_start
    \/ Generator_end
    \/ PaginatedPull_next
    \/ JournalPull_next
    \/ LinkedTransactionsPull_next
    \/ Stop

Spec == Init /\ [][Next]_vars

----------------------------------------------------------------------------
(* A process that runs one stream only, any number of times *)

InitStream ==
    /\ selected \in {{c} : c \in Classes}
    /\ remote = [stable |-> FALSE, db |-> << >>]
    /\ state \in InitStatesOf(selected \ {"EverythingPull"})
    /\ script = << >>
    /\ InitRest

SpecStream == InitStream /\ [][Next]_vars

----------------------------------------------------------------------------
(* _make_request alone, against every course the attempts of a call can take *)

\* k times 503 and then a batch or an error; 503 throughout; and a 401
\* followed by what a further attempt would be answered
RequestScripts ==
    LET batches == SeqsUpTo(RecsOf("EverythingPull"), MaxBatch)
        firsts == Answers(batches, 0..max_tries)
    IN  firsts
        \cup {Append(a, f) : a \in {x \in firsts : x[Len(x)].status = 401},
                             f \in {Answer(200, b) : b \in batches} \cup {Answer(401, << >>)}}

InitRequest ==
    /\ selected = {}
    /\ remote = [stable |-> FALSE, db |-> << >>]
    /\ state = EmptyDict
    /\ script \in RequestScripts
    /\ InitRest

\* self._make_request(options), the remote answering as the script says
Call ==
    /\ call = NoCall
    /\ call' = _make_request(script)
    /\ UNCHANGED <<selected, state, defaults, remote, pc, self, loc, options, out,
                   req, nruns, run, prev, state0, script>>

NextRequest == Call

SpecRequest == InitRequest /\ [][NextRequest]_vars

----------------------------------------------------------------------------
(* PaginatedPull runs against a remote whose record set does not change *)

InitResume ==
    /\ selected = {"PaginatedPull"}
    /\ remote \in {[stable |-> TRUE, db |-> d] : d \in DataSets}
    /\ state \in {EmptyDict, [bookmarks |-> EmptyDict]}
    /\ script = << >>
    /\ InitRest

NextResume ==
    \/ PaginatedPull_start
    \/ PaginatedPull_next
    \/ Stop

SpecResume == InitResume /\ [][NextResume]_vars

----------------------------------------------------------------------------
(* Claims *)

Bookmarked(st, c, field) == Peek(st, StreamOf(c), field)

\* C1: no gaps on resume (PaginatedPull).  Against a remote record set that
\* does not change, honours `since` and orders ascending: when a run that
\* started at page 1 was stopped after some batches (the consumer stopped, or
\* a fetch failed fatally) and the next run, started from the bookmark it left,
\* has swept to a real empty page, every record newer than the first run's
\* start cursor has been yielded by one of the two runs.
C1_NoGapsOnResume ==
    ( /\ remote.stable
      /\ run.cls = "PaginatedPull" /\ run.end = "exhausted"
      /\ prev.cls = "PaginatedPull" /\ prev.end \in {"stopped", "raised"}
      /\ prev.first = IntVal(1) )
    => \A i \in 1..Len(remote.db) :
          remote.db[i]["UpdatedDateUTC"].v > prev.start.v
          => remote.db[i].id \in (prev.ids \cup run.ids)

\* the position of the first answer of the script that is not a 503
RECURSIVE FirstNot503(_, _)
FirstNot503(answers, i) ==
    IF i > Len(answers) THEN 0
    ELSE IF answers[i].status # 503 THEN i
    ELSE FirstNot503(answers, i + 1)

Called == call.kind # "-"

\* C2: authorization retry.  When an attempt of _make_request is answered 401,
\* credential refresh is called once and the fetch is attempted exactly once
\* more: if that attempt succeeds the call returns its batch, and if it is
\* answered 401 again the failure leaves the call as a fatal error.
C2_AuthorizationRetry ==
    LET p == FirstNot503(script, 1)
    IN  ( /\ Called
          /\ p > 0 /\ p < max_tries /\ Len(script) > p
          /\ script[p].status = 401 )
        => /\ call.refreshes = 1
           /\ call.tries = p + 1
           /\ script[p + 1].status = 200
                 => call.kind = "list" /\ call.recs = script[p + 1].recs
           /\ script[p + 1].status = 401 => Raised(call)

\* C3: bounded rate-limit retry.  A call makes at most 10 attempts; k < 10
\* answers of 503 followed by a success make it return that batch after exactly
\* k + 1 attempts; 10 answers of 503 make it end with a fatal error after
\* exactly 10 attempts.
C3_BoundedRateLimitRetry ==
    LET p == FirstNot503(script, 1)
    IN  Called
        => /\ call.tries <= 10
           /\ (p > 0 /\ p <= 10 /\ script[p].status = 200)
                 => /\ call.kind = "list"
                    /\ call.recs = script[p].recs
                    /\ call.tries = p
           /\ (p = 0 \/ p > 10)
                 => /\ call.kind = "RateLimitException"
                    /\ call.tries = 10

\* C3 witness: nine answers of 503, then a batch of two records, returned at
\* the tenth attempt
W_C3 ==
    /\ Called
    /\ FirstNot503(script, 1) = 10
    /\ call.kind = "list"
    /\ Len(call.recs) = 2
    /\ call.tries = 10

SinceClasses == {"IncrementingPull", "BankTransfersPull", "PaginatedPull"}

\* C4: bookmark equals last record.  Whenever an IncrementingPull or
\* PaginatedPull run has just yielded a batch (its first or any later one), the
\* stream's updated_at bookmark is the UpdatedDateUTC (CreatedDateUTC for
\* BankTransfersPull) of the last record of that batch.
C4_BookmarkEqualsLastRecord ==
    (pc = "yielded" /\ self.cls \in SinceClasses)
    => Bookmarked(state, self.cls, "updated_at")
         = out.recs[Len(out.recs)][IF self.cls = "BankTransfersPull"
                                   THEN "CreatedDateUTC" ELSE "UpdatedDateUTC"]

\* C4 witness: the second batch of a PaginatedPull run, of two records of
\* different instants, has been yielded
W_C4 ==
    /\ pc = "yielded"
    /\ self.cls = "PaginatedPull"
    /\ loc.num_pages_yielded = 1
    /\ Len(out.recs) = 2
    /\ out.recs[1]["UpdatedDateUTC"] # out.recs[2]["UpdatedDateUTC"]
    /\ Bookmarked(state, self.cls, "updated_at") = out.recs[2]["UpdatedDateUTC"]

\* the instant of a stream's updated_at bookmark, -1 when it has none
Cursor(st, c) ==
    LET u == Bookmarked(st, c, "updated_at")
    IN  IF Truthy(u) THEN u.v ELSE -1

\* C5: cursor monotonicity for the since-based strategies.  Against a remote
\* that returns only records not older than `since`, ascending by the bookmark
\* property, no step lowers the updated_at bookmark of an IncrementingPull or
\* PaginatedPull stream: neither from batch to batch within a run nor from the
\* end of a run through the batches of the next run.
C5_SinceCursorMonotone ==
    [][\A c \in SinceClasses : Cursor(state, c) <= Cursor(state', c)]_vars

\* C5 witness: a PaginatedPull run resumed from the bookmark an interrupted
\* run left (page 3) has yielded a batch that moved the cursor forward
W_C5 ==
    /\ nruns = 2
    /\ pc = "yielded"
    /\ self.cls = "PaginatedPull"
    /\ Bookmarked(state0, self.cls, "page") = IntVal(3)
    /\ Cursor(state0, self.cls) >= 0
    /\ Cursor(state, self.cls) > Cursor(state0, self.cls)

\* the start cursor of the current run: the updated_at bookmark as it stood
\* when the run began, the configured start date if there was none
CursorAtStart == IF Cursor(state0, self.cls) >= 0 THEN Cursor(state0, self.cls)
                 ELSE StartDate

\* C6: cursor monotonicity for filtered pagination.  In a LinkedTransactionsPull
\* run the updated_at bookmark never drops below the run's start cursor and
\* does not decrease from one batch of the run to the next.
C6_LinkedCursorMonotone ==
    /\ [](self.cls = "LinkedTransactionsPull"
             => Cursor(state, self.cls) >= CursorAtStart)
    /\ [][(self.cls = "LinkedTransactionsPull" /\ self' = self /\ nruns' = nruns)
             => Cursor(state, self.cls) <= Cursor(state', self.cls)]_vars

\* the page number a PaginatedPull or LinkedTransactionsPull run resumes at
ResumePage ==
    LET p == Bookmarked(state0, self.cls, "page")
    IN  IF p.type = "int" /\ p.v >= 1 THEN p ELSE IntVal(1)

\* a step that issues a further fetch of the current run
FurtherFetch ==
    /\ pc = "yielded"
    /\ pc' # "stopped"
    /\ nruns' = nruns
    /\ loc'.num_pages_yielded <= PageLimit
    /\ self.cls \in {"PaginatedPull", "JournalPull", "LinkedTransactionsPull"}

\* C7: page resume.  The first fetch of a PaginatedPull run asks for the
\* bookmarked page p >= 1 (page 1 if the bookmark is absent or null), every
\* later fetch of the run for the page after the one before, and when the
\* batch of page n is yielded the page bookmark holds n + 1.
C7_PageResume ==
    /\ []((self.cls = "PaginatedPull" /\ loc.num_pages_yielded = 0)
             => req["page"] = ResumePage)
    /\ []((self.cls = "PaginatedPull" /\ pc = "yielded")
             => Bookmarked(state, self.cls, "page") = IntVal(req["page"].v + 1))
    /\ [][(FurtherFetch /\ self.cls = "PaginatedPull")
             => req'["page"] = IntVal(req["page"].v + 1)]_vars

\* C7 witness: a run that found page = 3 bookmarked has fetched page 3 and
\* then page 4, and yielded its batch
W_C7 ==
    /\ self.cls = "PaginatedPull"
    /\ Bookmarked(state0, self.cls, "page") = IntVal(3)
    /\ pc = "yielded"
    /\ loc.num_pages_yielded = 1
    /\ req["page"] = IntVal(4)
    /\ Bookmarked(state, self.cls, "page") = IntVal(5)

PageClasses == {"PaginatedPull", "LinkedTransactionsPull"}

\* C8: page reset on completion.  When a PaginatedPull or
\* LinkedTransactionsPull run has been iterated to exhaustion (a fetch returned
\* an empty batch) the page bookmark is null, so that a run which finds it so
\* starts at page 1; while a run is suspended between batches the page
\* bookmark is a page number, never null.
C8_PageResetOnCompletion ==
    self.cls \in PageClasses
    => /\ (pc = "done" /\ run.end = "exhausted")
             => /\ "page" \in DOMAIN state["bookmarks"][self.tap_stream_id]
                /\ Bookmarked(state, self.cls, "page") = None
       /\ pc = "yielded" => Bookmarked(state, self.cls, "page").type = "int"
       /\ Bookmarked(state0, self.cls, "page") = None => run.first = IntVal(1)

\* C8 witness: a LinkedTransactionsPull run that resumed at a bookmarked page
\* has yielded a batch, met an empty page and left the page bookmark null
W_C8 ==
    /\ self.cls = "LinkedTransactionsPull"
    /\ Bookmarked(state0, self.cls, "page").type = "int"
    /\ pc = "done"
    /\ run.end = "exhausted"
    /\ loc.num_pages_yielded = 1
    /\ Bookmarked(state, self.cls, "page") = None

\* the journal number a JournalPull run resumes at
ResumeJournal ==
    LET n == Bookmarked(state0, self.cls, "journal_number")
    IN  IF n.type = "int" THEN n ELSE IntVal(0)

\* C9: journal sequence bookmark.  The first fetch of a JournalPull run uses
\* the bookmarked journal_number as offset (0 if there is none); after each
\* yielded batch the journal_number bookmark is the JournalNumber of the last
\* record of that batch; the next fetch uses that value as its offset; and a
\* run that completes on an empty batch leaves journal_number as it was.
C9_JournalSequenceBookmark ==
    /\ []((self.cls = "JournalPull" /\ loc.num_pages_yielded = 0)
             => req["offset"] = ResumeJournal)
    /\ []((self.cls = "JournalPull" /\ pc = "yielded")
             => Bookmarked(state, self.cls, "journal_number")
                  = out.recs[Len(out.recs)]["JournalNumber"])
    /\ [][(FurtherFetch /\ self.cls = "JournalPull")
             => req'["offset"] = Bookmarked(state, self.cls, "journal_number")]_vars
    /\ [][(self.cls = "JournalPull" /\ pc = "yielded" /\ pc' = "done")
             => Bookmarked(state', self.cls, "journal_number")
                  = Bookmarked(state, self.cls, "journal_number")]_vars
    /\ []((self.cls = "JournalPull" /\ pc = "done" /\ loc.num_pages_yielded = 0)
             => Bookmarked(state, self.cls, "journal_number")
                  = Bookmarked(state0, self.cls, "journal_number"))

\* C9 witness: a run that found no journal_number has fetched with offset 0
\* and yielded a batch of two records ending with journal number 2, and the
\* bookmark is 2, not 1
W_C9 ==
    /\ self.cls = "JournalPull"
    /\ Bookmarked(state0, self.cls, "journal_number") = None
    /\ pc = "yielded"
    /\ req["offset"] = IntVal(0)
    /\ Len(out.recs) = 2
    /\ out.recs[2]["JournalNumber"] = IntVal(2)
    /\ Bookmarked(state, self.cls, "journal_number") = IntVal(2)

\* C10: local filtering.  Every batch LinkedTransactionsPull yields consists
\* of exactly the records of the fetched page whose UpdatedDateUTC is not older
\* than the run's start cursor, in their fetched order; and the page bookmark
\* is one past the fetched page whatever was filtered out, also when the
\* yielded batch is empty.
C10_LocalFiltering ==
    (self.cls = "LinkedTransactionsPull" /\ pc = "yielded")
    => /\ out.recs = SelectSeq(loc.page,
                        LAMBDA x : x["UpdatedDateUTC"].v >= CursorAtStart)
       /\ Bookmarked(state, self.cls, "page") = IntVal(req["page"].v + 1)

\* C10 witness: of a fetched page of an older and a newer record only the
\* newer one is yielded, and the page bookmark has advanced
W_C10 ==
    /\ self.cls = "LinkedTransactionsPull"
    /\ pc = "yielded"
    /\ Len(loc.page) = 2
    /\ loc.page[1]["UpdatedDateUTC"].v < CursorAtStart
    /\ loc.page[2]["UpdatedDateUTC"].v = CursorAtStart
    /\ out.recs = <<loc.page[2]>>
    /\ Bookmarked(state, self.cls, "page") = IntVal(req["page"].v + 1)

PagedClasses == {"PaginatedPull", "JournalPull", "LinkedTransactionsPull"}

\* batches the current run has produced so far
BatchesProduced ==
    IF pc = "yielded" THEN loc.num_pages_yielded + 1 ELSE loc.num_pages_yielded

\* the last _make_request call of the run ended with an exception
FetchFailed == call.kind \in {"RateLimitException", "HTTPError"}

\* C11: runaway-pagination valve (the page limit L scaled to PageLimit).  A
\* paginated run never produces more than L + 1 batches; when the consumer asks
\* for another batch after L + 1 the run ends with a fatal error without a
\* further fetch; and a run whose fetches all succeeded ends with a fatal error
\* only after it has produced more than L batches.
C11_RunawayValve ==
    /\ [](self.cls \in PagedClasses => BatchesProduced <= PageLimit + 1)
    /\ [][(/\ self.cls \in PagedClasses
           /\ pc = "yielded"
           /\ BatchesProduced = PageLimit + 1
           /\ nruns' = nruns
           /\ pc' # "stopped")
             => (pc' = "raised" /\ run'.fetches = run.fetches)]_vars
    /\ []((self.cls \in PagedClasses /\ pc = "raised" /\ ~FetchFailed)
             => BatchesProduced > PageLimit)

\* C11 witness: a LinkedTransactionsPull run whose pages were never empty has
\* been ended by the valve after PageLimit + 1 batches and as many fetches
W_C11 ==
    /\ self.cls = "LinkedTransactionsPull"
    /\ pc = "raised"
    /\ ~FetchFailed
    /\ loc.num_pages_yielded = PageLimit + 1
    /\ run.fetches = PageLimit + 1

\* the cursor fields of a stream's bookmark
Fields(st, c) ==
    [f \in {"updated_at", "page", "journal_number"} |-> Bookmarked(st, c, f)]

\* the cursor fields start-cursor seeding leaves
Seeded(st, c) ==
    IF c = "JournalPull" \/ Truthy(Bookmarked(st, c, "updated_at"))
    THEN Fields(st, c)
    ELSE [Fields(st, c) EXCEPT !["updated_at"] = config.start_date]

\* C12: fatal error keeps progress.  When a fetch of a paginated run fails
\* fatally (another HTTP error, or the rate-limit retries exhausted) after k
\* batches, the run ends with that error, the stream's bookmark is what it was
\* when batch k was yielded (the page bookmark the next page number, not null;
\* for k = 0 the bookmark as start-cursor seeding left it), and no further
\* batch is yielded.
C12_FatalErrorKeepsProgress ==
    /\ [][(/\ self'.cls \in PagedClasses
           /\ call'.kind \in {"RateLimitException", "HTTPError"}
           /\ (nruns' # nruns \/ run'.fetches # run.fetches))
             => /\ pc' = "raised"
                /\ out' = NoBatch
                /\ nruns' = nruns
                     => /\ Fields(state', self.cls) = Fields(state, self.cls)
                        /\ self.cls # "JournalPull"
                             => Bookmarked(state', self.cls, "page")
                                  = IntVal(req["page"].v + 1)
                /\ nruns' # nruns
                     => Fields(state', self'.cls) = Seeded(state, self'.cls)]_vars
    /\ [][pc = "raised" => nruns' = nruns + 1]_vars

\* C12 witness: the fetch of the second page of a PaginatedPull run has ended
\* with the rate-limit retries exhausted; the bookmark holds the page that
\* fetch asked for and the instant of the batch yielded before it
W_C12 ==
    /\ self.cls = "PaginatedPull"
    /\ pc = "raised"
    /\ call.kind = "RateLimitException"
    /\ call.tries = 10
    /\ loc.num_pages_yielded = 1
    /\ Bookmarked(state, self.cls, "page") = req["page"]
    /\ Cursor(state, self.cls) > Cursor(state0, self.cls)

\* C13: no retry for other errors.  When the first attempt that is not answered
\* 503 is answered with a status other than 401 and 200, the call ends with
\* that error at that attempt: no further attempt is made and credential
\* refresh is not called.
C13_NoRetryForOtherErrors ==
    LET p == FirstNot503(script, 1)
    IN  (Called /\ p > 0 /\ p <= 10 /\ script[p].status \in {400, 500})
        => /\ call.kind = "HTTPError"
           /\ call.tries = p
           /\ call.refreshes = 0

\* C13 witness: the one attempt of a call was answered 500
W_C13 ==
    /\ Called
    /\ Len(script) = 1
    /\ script[1].status = 500
    /\ call.kind = "HTTPError"
    /\ call.tries = 1
    /\ call.refreshes = 0

IncrementingClasses == {"IncrementingPull", "BankTransfersPull"}

----------------------------------------------------------------------------
(* A process that runs the journals and linked transactions streams (and the *)
(* unbookmarked one), which share the default options of _paginate           *)

SharedClasses == {"JournalPull", "LinkedTransactionsPull", "EverythingPull"}

\* the entries a stream can have in the initial state: none, or one of InitEntries
WithEntries(sts, c) ==
    sts \cup UNION {{[bookmarks |-> Put(st["bookmarks"], StreamOf(c), e)] :
                        e \in InitEntries(c)} : st \in sts}

InitSharedStates ==
    {EmptyDict}
    \cup WithEntries(WithEntries(
            {[bookmarks |-> EmptyDict],
             [bookmarks |-> [accounts |-> [updated_at |-> Str("singer", StartDate)]]]},
            "JournalPull"), "LinkedTransactionsPull")

InitShared ==
    /\ selected = SharedClasses
    /\ remote = [stable |-> FALSE, db |-> << >>]
    /\ state \in InitSharedStates
    /\ script = << >>
    /\ InitRest

NextShared ==
    \/ EverythingPull_start
    \/ JournalPull_start
    \/ LinkedTransactionsPull_start
    \/ Generator_end
    \/ JournalPull_next
    \/ LinkedTransactionsPull_next
    \/ Stop

SpecShared == InitShared /\ [][NextShared]_vars

----------------------------------------------------------------------------
(* A process that runs one stream over a state in which every bookmarked     *)
(* stream has an entry already                                               *)

\* an entry earlier runs of strategy c leave for its stream
EntryOf(c) ==
    CASE c \in {"IncrementingPull", "BankTransfersPull"} ->
            [updated_at |-> Str("singer", StartDate)]
      [] c \in {"PaginatedPull", "LinkedTransactionsPull"} ->
            [updated_at |-> Str("singer", StartDate), page |-> None]
      [] OTHER -> [journal_number |-> IntVal(1)]

\* the state with the entries of the streams of these strategies
StateOf(classes) ==
    [bookmarks |-> [id \in {StreamOf(c) : c \in classes} |->
                       EntryOf(CHOOSE c \in classes : StreamOf(c) = id)]]

InitIsolation ==
    /\ selected \in {{c} : c \in Classes}
    /\ remote = [stable |-> FALSE, db |-> << >>]
    /\ state \in {StateOf(Classes \ {"EverythingPull"}),
                  StateOf(Classes \ ({"EverythingPull"} \cup selected))}
    /\ script = << >>
    /\ InitRest

SpecIsolation == InitIsolation /\ [][Next]_vars

----------------------------------------------------------------------------

\* the bookmark entry of stream id in st, if there is one
Entry(st, id) ==
    IF "bookmarks" \in DOMAIN st /\ id \in DOMAIN st["bookmarks"]
    THEN [present |-> TRUE, entry |-> st["bookmarks"][id]]
    ELSE [present |-> FALSE, entry |-> EmptyDict]

\* C15: per-stream isolation of bookmarks.  No step of a run for stream S
\* changes the bookmark entry of another stream, or drops a key of the state
\* mapping or of the bookmarks mapping; and no step of an EverythingPull run
\* changes the state.
C15_StreamIsolation ==
    [][/\ \A T \in Streams \ {self'.tap_stream_id} : Entry(state', T) = Entry(state, T)
       /\ DOMAIN state \subseteq DOMAIN state'
       /\ "bookmarks" \in DOMAIN state
             => DOMAIN state["bookmarks"] \subseteq DOMAIN state'["bookmarks"]
       /\ self'.cls = "EverythingPull" => state' = state]_vars

\* C15 witness: a LinkedTransactionsPull run started on a state without an
\* entry of its own has created the entry and yielded a batch, and the
\* entries of the four other streams are in the state as they were
W_C15 ==
    /\ self.cls = "LinkedTransactionsPull"
    /\ pc = "yielded"
    /\ ~Entry(state0, "linked_transactions").present
    /\ Bookmarked(state, "LinkedTransactionsPull", "page").type = "int"
    /\ \A c \in Classes \ {"EverythingPull", "LinkedTransactionsPull"} :
          /\ Entry(state, StreamOf(c)).present
          /\ Entry(state, StreamOf(c)) = Entry(state0, StreamOf(c))

\* C16: fetch/update/yield ordering.  Whenever a batch is in the consumer's
\* hands the run has made exactly as many fetches as it has produced batches
\* (none ahead), the batch is the one the last fetch returned (filtered, for
\* LinkedTransactionsPull) and the bookmark already holds the position of that
\* batch; a further fetch is made only in answer to the consumer's request for
\* the next batch, one fetch per request.
C16_FetchUpdateYieldOrder ==
    /\ [](pc = "yielded"
             => /\ run.fetches = BatchesProduced
                /\ out.kind = call.kind
                /\ self.cls # "LinkedTransactionsPull" => out.recs = call.recs
                /\ self.cls = "LinkedTransactionsPull"
                      => /\ loc.page = call.recs
                         /\ \A i \in 1..Len(out.recs) :
                               \E j \in 1..Len(call.recs) : out.recs[i] = call.recs[j]
                /\ self.cls \in SinceClasses \cup {"LinkedTransactionsPull"}
                      => Bookmarked(state, self.cls, "updated_at")
                           = call.recs[Len(call.recs)][IF self.cls = "BankTransfersPull"
                                                       THEN "CreatedDateUTC"
                                                       ELSE "UpdatedDateUTC"]
                /\ self.cls \in PageClasses
                      => Bookmarked(state, self.cls, "page") = IntVal(req["page"].v + 1)
                /\ self.cls = "JournalPull"
                      => Bookmarked(state, self.cls, "journal_number")
                           = call.recs[Len(call.recs)]["JournalNumber"])
    /\ [][nruns' = nruns
             => /\ run'.fetches <= run.fetches + 1
                /\ run'.fetches # run.fetches => (pc = "yielded" /\ pc' # "stopped")]_vars
    /\ [][nruns' # nruns => run'.fetches = 1]_vars

\* C16 witness: the second batch of a JournalPull run is in the consumer's
\* hands after two fetches, and journal_number is that of its last record
W_C16 ==
    /\ self.cls = "JournalPull"
    /\ pc = "yielded"
    /\ loc.num_pages_yielded = 1
    /\ run.fetches = 2
    /\ Len(out.recs) = 2
    /\ out.recs = call.recs
    /\ Bookmarked(state, self.cls, "journal_number") = out.recs[2]["JournalNumber"]

SeedClasses == {"IncrementingPull", "BankTransfersPull", "PaginatedPull",
                "LinkedTransactionsPull"}

\* C17: start-cursor seeding.  When a run of a strategy with an updated_at
\* cursor starts on a state without an updated_at for its stream (no
\* `bookmarks`, no entry, the key absent, null or empty), the start date is
\* written as the bookmark and is the run's start cursor; an updated_at that
\* is there is left as it is and is the start cursor; and the run does not end
\* with an error unless its fetch failed.
C17_StartCursorSeeding ==
    [][(nruns' # nruns /\ self'.cls \in SeedClasses)
          => LET u == Bookmarked(state, self'.cls, "updated_at")
             IN  /\ run'.start = Datetime(IF Truthy(u) THEN u.v ELSE StartDate)
                 /\ pc' # "yielded"
                       => Bookmarked(state', self'.cls, "updated_at")
                            = IF Truthy(u) THEN u ELSE Str("cfg", StartDate)
                 /\ pc' = "raised"
                       => call'.kind \in {"RateLimitException", "HTTPError"}]_vars

\* C17 witness: a LinkedTransactionsPull run started on the empty state has met
\* an empty first page: the bookmark is the start date, and so is the start
\* cursor
W_C17 ==
    /\ self.cls = "LinkedTransactionsPull"
    /\ state0 = EmptyDict
    /\ pc = "done"
    /\ run.end = "exhausted"
    /\ run.start = Datetime(StartDate)
    /\ Bookmarked(state, self.cls, "updated_at") = Str("cfg", StartDate)

\* C18: fresh request options per run.  Every fetch of a JournalPull run
\* carries the option `offset` and no other, and every fetch of a
\* LinkedTransactionsPull run the option `page` and no other, whatever runs
\* came before it in the process.
C18_FreshOptionsPerRun ==
    /\ self.cls = "JournalPull" => DOMAIN req = {"offset"}
    /\ self.cls = "LinkedTransactionsPull" => DOMAIN req = {"page"}

\* C19: a sweep completes only on a real empty page.  When a PaginatedPull or
\* LinkedTransactionsPull run has ended normally, the page bookmark reset to
\* null, the last fetch was answered with an empty batch, not with an error.
C19_SweepEndsOnEmptyPage ==
    (self.cls \in PageClasses /\ pc = "done")
    => (call.kind = "list" /\ call.recs = << >>)

\* C20: stable `since` within a run.  Every fetch of a PaginatedPull run
\* carries the start cursor read when the run began as `since`, the bookmark
\* property ascending as `order`, and the page number, and nothing else,
\* however far the updated_at bookmark has advanced since.
C20_StableSinceWithinRun ==
    self.cls = "PaginatedPull"
    => /\ DOMAIN req = {"since", "order", "page"}
       /\ req["since"] = Datetime(CursorAtStart)
       /\ req["order"] = Text("UpdatedDateUTC ASC")
       /\ req["page"].type = "int"

\* C20 witness: the second fetch of a run was made with the start cursor as
\* `since` although the first batch had moved the bookmark past it
W_C20 ==
    /\ self.cls = "PaginatedPull"
    /\ pc = "yielded"
    /\ loc.num_pages_yielded = 1
    /\ run.fetches = 2
    /\ Cursor(state, self.cls) > CursorAtStart
    /\ req["since"] = Datetime(CursorAtStart)

====
